---- MODULE Spec2Model ----
(***************************************************************************)
(* Model of the Todo list Store (src/todoManager.js, the feature-complete  *)
(* variant that starts at line 97 of the file).                            *)
(*                                                                         *)
(* The only state of the Store is the value held by localStorage under     *)
(* STORAGE_KEY.  Every operation reads that value (getTodos), works on the *)
(* parsed array and writes the whole array back (saveTodos).               *)
(***************************************************************************)
EXTENDS Integers, Sequences, FiniteSets, TLC

VARIABLES storage, getItemThrows, clock, lastOp, issued, view, calls,
          display, timers, ran, origin, uiOp, badge

\* The state of the page (src/todoUI.js): what it displays, the callbacks
\* handed to setTimeout, and the records kept to state its properties.
uivars == <<display, timers, ran, origin, uiOp, badge>>

vars == <<storage, getItemThrows, clock, lastOp, issued, view, calls,
          display, timers, ran, origin, uiOp, badge>>

(***************************************************************************)
(* Bounds of the model.                                                    *)
(***************************************************************************)
MaxTasks == 2
MaxId == 2
MaxClock == 1
MaxCalls == 3
MaxStored == 2
MaxArray == 2

(***************************************************************************)
(* JavaScript values.                                                      *)
(***************************************************************************)
Null == "<null>"
Undefined == "<undefined>"

\* Characters of a text; SP is a white-space character.
SP == " "

Statuses == {"todo", "doing", "done"}

\* The texts, due dates and statuses the callers pass.
RawTexts == { <<SP>>, <<SP, "a", SP>> }
DueDates == { "2025-01-10" }

\* createdAt values: the ISO string of an instant (ms), a missing field, or
\* a string that Date cannot parse.
Iso(ms) == [k |-> "iso", ms |-> ms]
MissingCreatedAt == [k |-> "missing", ms |-> 0]
UnparseableCreatedAt == [k |-> "unparseable", ms |-> 0]

(***************************************************************************)
(* String.prototype.trim: strips leading and trailing white space.         *)
(***************************************************************************)
RECURSIVE TrimStart(_)
TrimStart(s) ==
  IF s = <<>> THEN <<>>
  ELSE IF Head(s) = SP THEN TrimStart(Tail(s)) ELSE s

RECURSIVE TrimEnd(_)
TrimEnd(s) ==
  IF s = <<>> THEN <<>>
  ELSE IF s[Len(s)] = SP THEN TrimEnd(SubSeq(s, 1, Len(s) - 1)) ELSE s

\* Variant that strips nothing.
trim_Identity(s) == s

trim(s) == TrimEnd(TrimStart(s))

(***************************************************************************)
(* localStorage holds a string or nothing under the key.  The value is     *)
(* modelled by what JSON.parse makes of it:                                *)
(*   absent   the key is not set (getItem returns null)                    *)
(*   empty    the empty string                                             *)
(*   invalid  a string that is not JSON (JSON.parse throws)                *)
(*   json     JSON text of a value that is not an array (lit names it)     *)
(*   array    JSON text of an array of task records (val)                  *)
(***************************************************************************)
Absent == [kind |-> "absent", lit |-> "", val |-> <<>>]
EmptyString == [kind |-> "empty", lit |-> "", val |-> <<>>]
InvalidJson == [kind |-> "invalid", lit |-> "{oops", val |-> <<>>]
NonArrayJson(l) == [kind |-> "json", lit |-> l, val |-> <<>>]

\* JSON.stringify of an array of task records.
JSONstringify(todos) == [kind |-> "array", lit |-> "", val |-> todos]

\* A parsed value: an array (val) or some other JavaScript value (lit).
ArrayValue(todos) == [isArray |-> TRUE, lit |-> "", val |-> todos]
OtherValue(l) == [isArray |-> FALSE, lit |-> l, val |-> <<>>]

\* getTodos: the parsed stored value, [] when the key is unset or empty and
\* [] when getItem or JSON.parse throws.
getTodosValue(st, throws) ==
  IF throws THEN ArrayValue(<<>>)
  ELSE IF st.kind \in {"absent", "empty"} THEN ArrayValue(<<>>)
  ELSE IF st.kind = "invalid" THEN ArrayValue(<<>>)
  ELSE IF st.kind = "array" THEN ArrayValue(st.val)
  ELSE OtherValue(st.lit)

getTodos == getTodosValue(storage, getItemThrows).val

\* Variant that clears the key before writing it.
saveTodos_ClearFirst(todos, ok) ==
  IF ok THEN JSONstringify(todos) ELSE Absent

\* saveTodos: setItem of the serialized array; a throwing setItem is caught
\* and leaves the stored value as it was.
saveTodos(todos, ok) ==
  IF ok THEN JSONstringify(todos) ELSE storage

(***************************************************************************)
(* Helpers on arrays.                                                      *)
(***************************************************************************)
Range(s) == { s[i] : i \in 1..Len(s) }

Ids(todos) == { todos[i].id : i \in 1..Len(todos) }

MathMax(S) == CHOOSE m \in S : \A x \in S : x <= m

\* Array.prototype.find on the id: the index of the first match, 0 if none.
FindIndex(todos, id) ==
  IF \E i \in 1..Len(todos) : todos[i].id = id
  THEN CHOOSE i \in 1..Len(todos) :
         /\ todos[i].id = id
         /\ \A j \in 1..(i - 1) : todos[j].id # id
  ELSE 0

(***************************************************************************)
(* The record of the last call, kept to state the contracts of the calls.  *)
(* ret is the returned task as a sequence of length 1, <<>> for null.      *)
(***************************************************************************)
NoTodo == <<>>

Call(op, id, text, status, dueDate, ok, ret, deleted) ==
  [op |-> op, id |-> id, text |-> text, status |-> status,
   dueDate |-> dueDate, ok |-> ok, ret |-> ret, deleted |-> deleted]

NoCall == Call("none", 0, <<>>, Undefined, Undefined, TRUE, NoTodo, FALSE)

\* The record of the last read: which query, whether it threw, the value
\* getTodos gave it, the list or the counts it returned.
NoView == [q |-> "none", threw |-> FALSE, isArray |-> TRUE, lit |-> "",
           list |-> <<>>, todo |-> 0, doing |-> 0, done |-> 0, total |-> 0]

(***************************************************************************)
(* addTodo                                                                 *)
(***************************************************************************)
\* Variants of NewId with a slip in the id arithmetic.
NewId_NoIncrement(todos) ==
  IF Len(todos) > 0 THEN MathMax(Ids(todos)) ELSE 1

NewId_Length(todos) == Len(todos) + 1

NewId_Count(todos) ==
  IF Len(todos) > 0 THEN Len(todos) ELSE 1

NewId(todos) ==
  IF Len(todos) > 0 THEN MathMax(Ids(todos)) + 1 ELSE 1

addTodo(text, status, dueDate, ok) ==
  LET todos == getTodos
      newId == NewId(todos)
      newTodo == [id |-> newId,
                  text |-> trim(text),
                  status |-> IF status = Undefined THEN "todo" ELSE status,
                  createdAt |-> Iso(clock),
                  archived |-> FALSE,
                  dueDate |-> IF dueDate = Undefined THEN Null ELSE dueDate]
  IN /\ Len(todos) < MaxTasks
     /\ storage' = saveTodos(Append(todos, newTodo), ok)
     /\ lastOp' = Call("add", 0, text, status, dueDate, ok, <<newTodo>>, FALSE)
     /\ issued' = issued \cup {newId}
     /\ UNCHANGED <<getItemThrows, clock, view>>

(***************************************************************************)
(* deleteTodo                                                              *)
(***************************************************************************)
\* Variant that takes the id for the position in the array.
WithoutId_ByIndex(todos, id) ==
  IF id \in 1..Len(todos)
  THEN SubSeq(todos, 1, id - 1) \o SubSeq(todos, id + 1, Len(todos))
  ELSE todos

\* todos.filter(todo => todo.id !== id)
WithoutId(todos, id) ==
  LET IdDiffers(todo) == todo.id # id IN SelectSeq(todos, IdDiffers)

deleteTodo(id, ok) ==
  LET todos == getTodos
      filteredTodos == WithoutId(todos, id)
  IN IF Len(filteredTodos) = Len(todos)
     THEN /\ lastOp' = Call("delete", id, <<>>, Undefined, Undefined, ok,
                            NoTodo, FALSE)
          /\ UNCHANGED <<storage, getItemThrows, clock, issued, view>>
     ELSE /\ storage' = saveTodos(filteredTodos, ok)
          /\ lastOp' = Call("delete", id, <<>>, Undefined, Undefined, ok,
                            NoTodo, TRUE)
          /\ UNCHANGED <<getItemThrows, clock, issued, view>>

(***************************************************************************)
(* The updates: find the task by id, return null when there is none,       *)
(* otherwise assign one field of it, save the array and return the task.   *)
(***************************************************************************)
\* Variant that stamps the task with the clock when its status changes.
updateTodoStatus_Restamp(id, newStatus, ok) ==
  LET todos == getTodos
      i == FindIndex(todos, id)
  IN IF i = 0
     THEN /\ lastOp' = Call("setStatus", id, <<>>, newStatus, Undefined, ok,
                            NoTodo, FALSE)
          /\ UNCHANGED <<storage, getItemThrows, clock, issued, view>>
     ELSE LET todo == [todos[i] EXCEPT !.status = newStatus,
                                       !.createdAt = Iso(clock)]
          IN /\ storage' = saveTodos([todos EXCEPT ![i] = todo], ok)
             /\ lastOp' = Call("setStatus", id, <<>>, newStatus, Undefined,
                               ok, <<todo>>, FALSE)
             /\ UNCHANGED <<getItemThrows, clock, issued, view>>

updateTodoStatus(id, newStatus, ok) ==
  LET todos == getTodos
      i == FindIndex(todos, id)
  IN IF i = 0
     THEN /\ lastOp' = Call("setStatus", id, <<>>, newStatus, Undefined, ok,
                            NoTodo, FALSE)
          /\ UNCHANGED <<storage, getItemThrows, clock, issued, view>>
     ELSE LET todo == [todos[i] EXCEPT !.status = newStatus]
          IN /\ storage' = saveTodos([todos EXCEPT ![i] = todo], ok)
             /\ lastOp' = Call("setStatus", id, <<>>, newStatus, Undefined,
                               ok, <<todo>>, FALSE)
             /\ UNCHANGED <<getItemThrows, clock, issued, view>>

archiveTodo(id, ok) ==
  LET todos == getTodos
      i == FindIndex(todos, id)
  IN IF i = 0
     THEN /\ lastOp' = Call("archive", id, <<>>, Undefined, Undefined, ok,
                            NoTodo, FALSE)
          /\ UNCHANGED <<storage, getItemThrows, clock, issued, view>>
     ELSE LET todo == [todos[i] EXCEPT !.archived = TRUE]
          IN /\ storage' = saveTodos([todos EXCEPT ![i] = todo], ok)
             /\ lastOp' = Call("archive", id, <<>>, Undefined, Undefined,
                               ok, <<todo>>, FALSE)
             /\ UNCHANGED <<getItemThrows, clock, issued, view>>

unarchiveTodo(id, ok) ==
  LET todos == getTodos
      i == FindIndex(todos, id)
  IN IF i = 0
     THEN /\ lastOp' = Call("unarchive", id, <<>>, Undefined, Undefined, ok,
                            NoTodo, FALSE)
          /\ UNCHANGED <<storage, getItemThrows, clock, issued, view>>
     ELSE LET todo == [todos[i] EXCEPT !.archived = FALSE]
          IN /\ storage' = saveTodos([todos EXCEPT ![i] = todo], ok)
             /\ lastOp' = Call("unarchive", id, <<>>, Undefined, Undefined,
                               ok, <<todo>>, FALSE)
             /\ UNCHANGED <<getItemThrows, clock, issued, view>>

updateTodoDueDate(id, dueDate, ok) ==
  LET todos == getTodos
      i == FindIndex(todos, id)
  IN IF i = 0
     THEN /\ lastOp' = Call("setDueDate", id, <<>>, Undefined, dueDate, ok,
                            NoTodo, FALSE)
          /\ UNCHANGED <<storage, getItemThrows, clock, issued, view>>
     ELSE LET todo == [todos[i] EXCEPT !.dueDate = dueDate]
          IN /\ storage' = saveTodos([todos EXCEPT ![i] = todo], ok)
             /\ lastOp' = Call("setDueDate", id, <<>>, Undefined, dueDate,
                               ok, <<todo>>, FALSE)
             /\ UNCHANGED <<getItemThrows, clock, issued, view>>

\* Variant without the check of the trimmed text.
Falsy_Never(str) == FALSE

\* !trimmedText: the empty string is the only falsy string.
Falsy(str) == str = <<>>

updateTodoText(id, newText, ok) ==
  LET todos == getTodos
      i == FindIndex(todos, id)
      trimmedText == trim(newText)
  IN IF i = 0 \/ Falsy(trimmedText)
     THEN /\ lastOp' = Call("setText", id, newText, Undefined, Undefined, ok,
                            NoTodo, FALSE)
          /\ UNCHANGED <<storage, getItemThrows, clock, issued, view>>
     ELSE LET todo == [todos[i] EXCEPT !.text = trimmedText]
          IN /\ storage' = saveTodos([todos EXCEPT ![i] = todo], ok)
             /\ lastOp' = Call("setText", id, newText, Undefined, Undefined,
                               ok, <<todo>>, FALSE)
             /\ UNCHANGED <<getItemThrows, clock, issued, view>>

(***************************************************************************)
(* JavaScript numbers as far as the sort needs them: an integer or NaN.    *)
(***************************************************************************)
Num(n) == [nan |-> FALSE, n |-> n]
NaN == [nan |-> TRUE, n |-> 0]

\* a - b
Minus(a, b) == IF a.nan \/ b.nan THEN NaN ELSE Num(a.n - b.n)

\* statusPriority[status]; a status that is no key gives undefined, which
\* the subtraction turns into NaN.
statusPriority(status) ==
  IF status = "todo" THEN Num(0)
  ELSE IF status = "doing" THEN Num(1)
  ELSE IF status = "done" THEN Num(2)
  ELSE NaN

\* new Date(createdAt || 0) as a number: a missing createdAt is the epoch,
\* an unparseable one an Invalid Date (NaN).
DateValue(createdAt) ==
  IF createdAt.k = "missing" THEN Num(0)
  ELSE IF createdAt.k = "unparseable" THEN NaN
  ELSE Num(createdAt.ms)

\* The comparison function handed to Array.prototype.sort.
comparefn(a, b) ==
  LET priorityDiff == Minus(statusPriority(a.status), statusPriority(b.status))
  IN IF priorityDiff # Num(0) THEN priorityDiff
     ELSE Minus(DateValue(a.createdAt), DateValue(b.createdAt))

(***************************************************************************)
(* Array.prototype.sort (ECMA-262 SortCompare): a NaN result of the        *)
(* comparison function counts as +0.  When the function is a consistent    *)
(* comparator for the elements the result is the stable sorted order;      *)
(* otherwise the order is implementation-defined, any permutation.         *)
(***************************************************************************)
SortCompare(a, b) ==
  LET v == comparefn(a, b) IN IF v.nan THEN 0 ELSE v.n

ConsistentComparator(s) ==
  LET n == Len(s)
      cmp == [i \in 1..n |-> [j \in 1..n |-> SortCompare(s[i], s[j])]]
  IN /\ \A a \in 1..n : cmp[a][a] = 0
     /\ \A a, b \in 1..n :
          /\ cmp[a][b] = 0 => cmp[b][a] = 0
          /\ cmp[a][b] < 0 => cmp[b][a] > 0
          /\ cmp[a][b] > 0 => cmp[b][a] < 0
     /\ \A a, b, c \in 1..n :
          /\ cmp[a][b] = 0 /\ cmp[b][c] = 0 => cmp[a][c] = 0
          /\ cmp[a][b] < 0 /\ cmp[b][c] < 0 => cmp[a][c] < 0
          /\ cmp[a][b] > 0 /\ cmp[b][c] > 0 => cmp[a][c] > 0

RECURSIVE InsertSorted(_, _)
InsertSorted(acc, x) ==
  IF acc = <<>> THEN <<x>>
  ELSE IF SortCompare(acc[Len(acc)], x) > 0
       THEN Append(InsertSorted(SubSeq(acc, 1, Len(acc) - 1), x), acc[Len(acc)])
       ELSE Append(acc, x)

RECURSIVE StableSort(_)
StableSort(s) ==
  IF s = <<>> THEN <<>>
  ELSE InsertSorted(StableSort(SubSeq(s, 1, Len(s) - 1)), s[Len(s)])

Reorderings(s) ==
  { [i \in 1..Len(s) |-> s[p[i]]] : p \in Permutations(1..Len(s)) }

\* No comparison of two elements of s involves NaN: the comparison function
\* is then the lexicographic order on (priority, instant), a consistent
\* comparator.
NumericKeys(s) ==
  \A i \in 1..Len(s) :
    /\ ~statusPriority(s[i].status).nan
    /\ ~DateValue(s[i].createdAt).nan

ArraySort(s) ==
  IF NumericKeys(s) \/ ConsistentComparator(s)
  THEN { StableSort(s) }
  ELSE Reorderings(s)

(***************************************************************************)
(* The queries, as functions of the array getTodos returns.                *)
(***************************************************************************)
NotArchived(todo) == ~todo.archived

IsArchived(todo) == todo.archived

\* Variants of the two filters that keep every task.
activeTodos_All(todos) == todos

getArchivedTodos_All(todos) == todos

\* todos.filter(todo => !todo.archived)
activeTodos(todos) == SelectSeq(todos, NotArchived)

\* The results getSortedTodos can return.
getSortedTodos(todos) == ArraySort(activeTodos(todos))

getArchivedTodos(todos) == SelectSeq(todos, IsArchived)

CountStatus(todos, status) ==
  LET HasStatus(t) == t.status = status IN Len(SelectSeq(todos, HasStatus))

\* getStatusSummary, of a result of getSortedTodos.
getStatusSummary(todos) ==
  [todo |-> CountStatus(todos, "todo"),
   doing |-> CountStatus(todos, "doing"),
   done |-> CountStatus(todos, "done"),
   total |-> Len(todos)]

(***************************************************************************)
(* The callers of the Store.  W is the set of outcomes of                  *)
(* localStorage.setItem (TRUE: it returns, FALSE: it throws) and Limit the *)
(* number of calls made in a behaviour.                                    *)
(***************************************************************************)
CallerIds == 1..MaxId

\* The clock read by new Date() advances between calls.
Tick ==
  /\ clock < MaxClock
  /\ clock' = clock + 1
  /\ UNCHANGED <<storage, getItemThrows, lastOp, issued, view, calls>>
  /\ UNCHANGED uivars

\* A call made directly on the Store leaves the page alone.
Counted(Limit) ==
  /\ calls < Limit
  /\ calls' = calls + 1
  /\ UNCHANGED uivars

Add(W, Limit) ==
  /\ Counted(Limit)
  /\ \E text \in RawTexts, status \in Statuses \cup {Undefined},
        dueDate \in DueDates \cup {Undefined}, ok \in W :
       addTodo(text, status, dueDate, ok)

Delete(W, Limit) ==
  /\ Counted(Limit)
  /\ \E id \in CallerIds, ok \in W : deleteTodo(id, ok)

SetStatus(W, Limit) ==
  /\ Counted(Limit)
  /\ \E id \in CallerIds, newStatus \in Statuses, ok \in W :
       updateTodoStatus(id, newStatus, ok)

SetText(W, Limit) ==
  /\ Counted(Limit)
  /\ \E id \in CallerIds, newText \in RawTexts, ok \in W :
       updateTodoText(id, newText, ok)

SetDueDate(W, Limit) ==
  /\ Counted(Limit)
  /\ \E id \in CallerIds, dueDate \in DueDates \cup {Null}, ok \in W :
       updateTodoDueDate(id, dueDate, ok)

Archive(W, Limit) ==
  /\ Counted(Limit)
  /\ \E id \in CallerIds, ok \in W : archiveTodo(id, ok)

Unarchive(W, Limit) ==
  /\ Counted(Limit)
  /\ \E id \in CallerIds, ok \in W : unarchiveTodo(id, ok)

(***************************************************************************)
(* getDueDateUrgency (src/todoUI.js).  Time is counted in hours since the  *)
(* epoch, a time zone is its offset from UTC in hours, and a date-only     *)
(* string YYYY-MM-DD is the number of its day since the epoch.             *)
(***************************************************************************)
HoursPerDay == 24
MaxHour == 47
MaxDueDay == 6

\* The zones the browser may run in: west of UTC, UTC, east of UTC.
TimeZones == {-5, 0, 9}

\* The values of todo.dueDate: null, the empty string of an empty date
\* input, or a date-only string.
NullDate == [k |-> "null", day |-> 0]
EmptyDate == [k |-> "empty", day |-> 0]
DateOnly(day) == [k |-> "date", day |-> day]

\* new Date("YYYY-MM-DD"): a date-only string is midnight UTC of that day.
DateParse(dueDate) == dueDate.day * HoursPerDay

\* date.setHours(0, 0, 0, 0): midnight local time of the local calendar day
\* that holds the instant t.
setHoursZero(t, tz) == ((t + tz) \div HoursPerDay) * HoursPerDay - tz

\* Math.ceil(a / b) for b > 0.
MathCeil(a, b) == -((-a) \div b)

getDueDateUrgency(dueDate, now, tz) ==
  IF dueDate.k # "date" THEN Null
  ELSE LET today == setHoursZero(now, tz)
           due == setHoursZero(DateParse(dueDate), tz)
           diffTime == due - today
           diffDays == MathCeil(diffTime, HoursPerDay)
       IN IF diffDays < 0 THEN "overdue"
          ELSE IF diffDays <= 3 THEN "urgent"
          ELSE "normal"

\* The record of the last due date badge: the zone and the hour of the
\* clock, the due date and the urgency class given to it.
Badge(tz, now, dueDate, urgency, shown) ==
  [tz |-> tz, now |-> now, dueDate |-> dueDate, urgency |-> urgency,
   shown |-> shown]

NoBadge == Badge(0, 0, NullDate, Null, FALSE)

(***************************************************************************)
(* The page (src/todoUI.js).  renderTodos replaces what is displayed by    *)
(* the results of getSortedTodos, getStatusSummary and getArchivedTodos;   *)
(* each displayed element keeps the task record it was made of.  born is   *)
(* a record for the properties: the ids returned by the adds made before   *)
(* the page was rendered.                                                  *)
(***************************************************************************)
NoOrigin == <<>>

\* Variant of page that leaves the summary as it is displayed.
page_KeepSummary(sorted, summary, archived, born) ==
  [list |-> sorted, summary |-> display.summary, archive |-> archived,
   born |-> born]

page(sorted, summary, archived, born) ==
  [list |-> sorted, summary |-> summary, archive |-> archived, born |-> born]

\* The page after renderTodos on unset storage.
EmptyPage ==
  [list |-> <<>>, summary |-> getStatusSummary(<<>>), archive |-> <<>>,
   born |-> NoOrigin]

\* The record of the last step of the page: the event, the id and text it
\* carried, the add that made the task of the element (born) and the add
\* that made the task a deferred callback changed (target, 0 for none).
UiOp(kind, id, text, born, target) ==
  [kind |-> kind, id |-> id, text |-> text, born |-> born, target |-> target]

NoUiOp == UiOp("none", 0, <<>>, 0, 0)

(***************************************************************************)
(* Spec: the Store from unset storage, every write succeeding.             *)
(***************************************************************************)
Init ==
  /\ storage = Absent
  /\ getItemThrows = FALSE
  /\ clock = 0
  /\ lastOp = NoCall
  /\ issued = {}
  /\ view = NoView
  /\ calls = 0
  /\ display = EmptyPage
  /\ timers = <<>>
  /\ ran = 0
  /\ origin = NoOrigin
  /\ uiOp = NoUiOp
  /\ badge = NoBadge

Next ==
  \/ Tick
  \/ Add({TRUE}, MaxCalls)
  \/ Delete({TRUE}, MaxCalls)
  \/ SetStatus({TRUE}, MaxCalls)
  \/ SetText({TRUE}, MaxCalls)
  \/ SetDueDate({TRUE}, MaxCalls)
  \/ Archive({TRUE}, MaxCalls)
  \/ Unarchive({TRUE}, MaxCalls)

Spec == Init /\ [][Next]_vars

(***************************************************************************)
(* SpecCall: one call of the Store on a collection persisted by earlier    *)
(* sessions.  The Store appends tasks with an id above every id present    *)
(* and stamps them with the clock, so a persisted collection has its ids   *)
(* in ascending order; its other fields are whatever the calls left.       *)
(***************************************************************************)
StoredTexts == { trim(t) : t \in RawTexts }

PersistedTasks ==
  [id : 1..MaxId, text : StoredTexts, status : Statuses,
   createdAt : {Iso(0)}, archived : BOOLEAN, dueDate : DueDates \cup {Null}]

Ascending(todos) ==
  \A i \in 1..(Len(todos) - 1) : todos[i].id < todos[i + 1].id

\* The page loads with what an earlier session persisted.
LoadPersisted ==
  /\ lastOp = NoCall
  /\ \/ storage' = Absent /\ issued' = {}
     \/ \E n \in 0..MaxStored :
          \E todos \in [1..n -> PersistedTasks] :
            /\ Ascending(todos)
            /\ storage' = JSONstringify(todos)
            /\ issued' = Ids(todos)
  /\ lastOp' = Call("load", 0, <<>>, Undefined, Undefined, TRUE, NoTodo, FALSE)
  /\ UNCHANGED <<getItemThrows, clock, view, calls>>
  /\ UNCHANGED uivars

\* A call is made once the page has loaded.
Loaded == lastOp # NoCall

NextCall ==
  \/ LoadPersisted
  \/ Tick
  \/ Loaded /\ Add({TRUE}, 1)
  \/ Loaded /\ Delete({TRUE}, 1)
  \/ Loaded /\ SetStatus({TRUE}, 1)
  \/ Loaded /\ SetText({TRUE}, 1)
  \/ Loaded /\ SetDueDate({TRUE}, 1)
  \/ Loaded /\ Archive({TRUE}, 1)
  \/ Loaded /\ Unarchive({TRUE}, 1)

SpecCall == Init /\ [][NextCall]_vars

(***************************************************************************)
(* SpecWriteFail: the same call when setItem may throw (quota exceeded,    *)
(* storage disabled).                                                      *)
(***************************************************************************)
NextWriteFail ==
  \/ LoadPersisted
  \/ Tick
  \/ Loaded /\ Add(BOOLEAN, 1)
  \/ Loaded /\ Delete(BOOLEAN, 1)
  \/ Loaded /\ SetStatus(BOOLEAN, 1)
  \/ Loaded /\ SetText(BOOLEAN, 1)
  \/ Loaded /\ SetDueDate(BOOLEAN, 1)
  \/ Loaded /\ Archive(BOOLEAN, 1)
  \/ Loaded /\ Unarchive(BOOLEAN, 1)

SpecWriteFail == Init /\ [][NextWriteFail]_vars
(***************************************************************************)
(* SpecQuery: the reads of the Store on whatever the key holds when the    *)
(* page loads: nothing, a string that is no JSON, JSON of another value,   *)
(* or an array of task records written by this or an older version, whose  *)
(* createdAt may be missing or unparseable and whose status may lie        *)
(* outside the three values.  getItem may throw (storage access denied).   *)
(***************************************************************************)
StoredFields ==
  [status : Statuses \cup {"someday"},
   createdAt : {MissingCreatedAt, UnparseableCreatedAt, Iso(1), Iso(2)},
   archived : BOOLEAN]

StoredTask(i, f) ==
  [id |-> i, text |-> <<"a">>, status |-> f.status,
   createdAt |-> f.createdAt, archived |-> f.archived, dueDate |-> Null]

OtherStorages ==
  {Absent, EmptyString, InvalidJson}
    \cup { NonArrayJson(l) : l \in {"42", "{}", "null"} }

Result(q, threw, value, list, summary) ==
  [q |-> q, threw |-> threw, isArray |-> value.isArray, lit |-> value.lit,
   list |-> list, todo |-> summary.todo, doing |-> summary.doing,
   done |-> summary.done, total |-> summary.total]

NoSummary == [todo |-> 0, doing |-> 0, done |-> 0, total |-> 0]

\* A read leaves everything but its own result as it was.
Read ==
  /\ UNCHANGED <<storage, getItemThrows, clock, lastOp, issued, calls>>
  /\ UNCHANGED uivars

\* getTodos()
ListAll ==
  /\ Read
  /\ LET value == getTodosValue(storage, getItemThrows)
     IN view' = Result("all", FALSE, value, value.val, NoSummary)

\* getSortedTodos(); filter is no method of a value that is not an array.
ListSorted ==
  /\ Read
  /\ LET value == getTodosValue(storage, getItemThrows)
     IN IF ~value.isArray
        THEN view' = Result("sorted", TRUE, value, <<>>, NoSummary)
        ELSE \E sorted \in getSortedTodos(value.val) :
               view' = Result("sorted", FALSE, value, sorted, NoSummary)

\* getArchivedTodos()
ListArchived ==
  /\ Read
  /\ LET value == getTodosValue(storage, getItemThrows)
     IN IF ~value.isArray
        THEN view' = Result("archived", TRUE, value, <<>>, NoSummary)
        ELSE view' = Result("archived", FALSE, value,
                            getArchivedTodos(value.val), NoSummary)

\* getStatusSummary()
StatusSummary ==
  /\ Read
  /\ LET value == getTodosValue(storage, getItemThrows)
     IN IF ~value.isArray
        THEN view' = Result("summary", TRUE, value, <<>>, NoSummary)
        ELSE \E sorted \in getSortedTodos(value.val) :
               view' = Result("summary", FALSE, value, <<>>,
                              getStatusSummary(sorted))

\* The page loads with whatever the key holds.
LoadRaw ==
  /\ lastOp = NoCall
  /\ \/ storage' \in OtherStorages
     \/ \E n \in 0..MaxArray :
          \E f \in [1..n -> StoredFields] :
            storage' = JSONstringify([i \in 1..n |-> StoredTask(i, f[i])])
  /\ getItemThrows' \in BOOLEAN
  /\ lastOp' = Call("load", 0, <<>>, Undefined, Undefined, TRUE, NoTodo, FALSE)
  /\ UNCHANGED <<clock, issued, view, calls>>
  /\ UNCHANGED uivars

NextQuery ==
  \/ LoadRaw
  \/ Loaded /\ ListAll
  \/ Loaded /\ ListSorted
  \/ Loaded /\ ListArchived
  \/ Loaded /\ StatusSummary

SpecQuery == Init /\ [][NextQuery]_vars

(***************************************************************************)
(* SpecUrgency: the urgency class of a due date badge, in the zone the     *)
(* browser runs in, at every hour of the first days of the epoch.          *)
(***************************************************************************)
DueValues == {NullDate, EmptyDate} \cup { DateOnly(d) : d \in 0..MaxDueDay }

OnlyBadge ==
  UNCHANGED <<storage, getItemThrows, clock, lastOp, issued, view, calls,
              display, timers, ran, origin, uiOp>>

\* The zone of the browser, fixed before the page shows anything.
SetZone ==
  /\ badge = NoBadge
  /\ \E tz \in TimeZones : badge' = Badge(tz, 0, NullDate, Null, FALSE)
  /\ OnlyBadge

\* An hour passes.
Elapse ==
  /\ badge.now < MaxHour
  /\ badge' = Badge(badge.tz, badge.now + 1, NullDate, Null, FALSE)
  /\ OnlyBadge

\* createTodoElement gives the badge of a task its urgency class.
ShowBadge ==
  /\ \E dueDate \in DueValues :
       badge' = Badge(badge.tz, badge.now, dueDate,
                      getDueDateUrgency(dueDate, badge.now, badge.tz), TRUE)
  /\ OnlyBadge

NextUrgency ==
  \/ SetZone
  \/ Elapse
  \/ ShowBadge

SpecUrgency == Init /\ [][NextUrgency]_vars

(***************************************************************************)
(* SpecPage: the page in the browser, from unset storage.  The user acts   *)
(* on the add form and on the elements the page displays; each handler     *)
(* runs to its end before the next event, and the callbacks handed to      *)
(* setTimeout, all with the same delay, run in the order they were handed  *)
(* over, at any moment between two events of the user.                     *)
(***************************************************************************)
MaxEvents == 4

\* What the user types into the add form and into the editor of a text,
\* and what the status and date fields of the add form hold.
FormTexts == RawTexts
EditTexts == { <<SP>>, <<"b", SP>> }
FormStatuses == {"todo", "doing"}
DateInputs == {""} \cup DueDates

\* value || null
OrNull(value) == IF value = "" THEN Null ELSE value

\* origin lists the ids the adds returned, in their order; the task that
\* holds id was made by the last add that returned id (0 when there is none).
BornOf(org, id) ==
  IF \E n \in 1..Len(org) : org[n] = id
  THEN CHOOSE n \in 1..Len(org) :
         /\ org[n] = id
         /\ \A m \in (n + 1)..Len(org) : org[m] # id
  ELSE 0

\* The callback handed to setTimeout by the element of task id.
Deferred(kind, id, born) == [kind |-> kind, id |-> id, born |-> born]

UserEvent ==
  /\ calls < MaxEvents
  /\ calls' = calls + 1

\* renderTodos(), run after the handler has made its call of the Store:
\* its three reads find what the call left in storage.
renderTodos(born) ==
  \E todos \in {getTodosValue(storage', getItemThrows).val} :
    \E sorted \in getSortedTodos(todos), counted \in getSortedTodos(todos) :
      display' = page(sorted, getStatusSummary(counted),
                      getArchivedTodos(todos), born)

\* The submit event of the add form (button, or Enter without shift).
handleSubmit ==
  /\ UserEvent
  /\ \E value \in FormTexts, status \in FormStatuses, date \in DateInputs :
       LET text == trim(value)
       IN IF Falsy(text)
          THEN /\ uiOp' = UiOp("submit", 0, value, 0, 0)
               /\ UNCHANGED <<storage, getItemThrows, clock, lastOp, issued,
                              view, display, timers, ran, origin, badge>>
          ELSE /\ addTodo(text, status, OrNull(date), TRUE)
               /\ origin' = Append(origin, lastOp'.ret[1].id)
               /\ renderTodos(origin')
               /\ uiOp' = UiOp("submit", lastOp'.ret[1].id, value, 0, 0)
               /\ UNCHANGED <<timers, ran, badge>>

\* saveTextEdit of the element made of todo, when its input holds value.
saveTextEdit(todo, value, key) ==
  LET newText == trim(value)
  IN /\ uiOp' = UiOp(key, todo.id, value, BornOf(display.born, todo.id), 0)
     /\ IF ~Falsy(newText) /\ newText # todo.text
        THEN /\ updateTodoText(todo.id, newText, TRUE)
             /\ IF lastOp'.ret # NoTodo
                THEN renderTodos(origin)
                ELSE UNCHANGED display
             /\ UNCHANGED <<timers, ran, origin, badge>>
        ELSE UNCHANGED <<storage, getItemThrows, clock, lastOp, issued, view,
                         display, timers, ran, origin, badge>>

\* Enter in the editor of a text, or the editor losing the focus.
CommitText ==
  /\ UserEvent
  /\ \E i \in 1..Len(display.list), value \in EditTexts,
        key \in {"enter", "blur"} :
       saveTextEdit(display.list[i], value, key)

\* Escape in the editor: the input takes the text of the element back.
CancelText ==
  /\ UserEvent
  /\ \E i \in 1..Len(display.list), value \in EditTexts :
       uiOp' = UiOp("escape", display.list[i].id, value,
                    BornOf(display.born, display.list[i].id), 0)
  /\ UNCHANGED <<storage, getItemThrows, clock, lastOp, issued, view,
                 display, timers, ran, origin, badge>>

\* What the status select of the element shows: the status of the last
\* change made with it, which the Store holds.
Selected(todo) ==
  LET i == FindIndex(getTodos, todo.id)
  IN IF i = 0 THEN todo.status ELSE getTodos[i].status

\* The change event of the status select of an element.
ChangeStatus ==
  /\ UserEvent
  /\ \E i \in 1..Len(display.list), newStatus \in Statuses :
       LET todo == display.list[i]
       IN /\ newStatus # Selected(todo)
          /\ updateTodoStatus(todo.id, newStatus, TRUE)
          /\ timers' = Append(timers, Deferred("render", todo.id,
                                               BornOf(display.born, todo.id)))
          /\ uiOp' = UiOp("status", todo.id, <<>>,
                          BornOf(display.born, todo.id), 0)
  /\ UNCHANGED <<display, ran, origin, badge>>

\* The change event of the date input of an element: of a task with a due
\* date (the date may be cleared) or of one without.
ChangeDueDate ==
  /\ UserEvent
  /\ \E i \in 1..Len(display.list), value \in DateInputs :
       LET todo == display.list[i]
           newDueDate == OrNull(value)
       IN /\ newDueDate # todo.dueDate
          /\ uiOp' = UiOp("dueDate", todo.id, <<>>,
                          BornOf(display.born, todo.id), 0)
          /\ IF todo.dueDate # Null \/ newDueDate # Null
             THEN /\ updateTodoDueDate(todo.id, newDueDate, TRUE)
                  /\ renderTodos(origin)
             ELSE UNCHANGED <<storage, getItemThrows, clock, lastOp, issued,
                              view, display>>
  /\ UNCHANGED <<timers, ran, origin, badge>>

\* The click on the archive button of an element.
ClickArchive ==
  /\ UserEvent
  /\ \E i \in 1..Len(display.list) :
       LET todo == display.list[i]
       IN /\ timers' = Append(timers, Deferred("archive", todo.id,
                                               BornOf(display.born, todo.id)))
          /\ uiOp' = UiOp("archive", todo.id, <<>>,
                          BornOf(display.born, todo.id), 0)
  /\ UNCHANGED <<storage, getItemThrows, clock, lastOp, issued, view,
                 display, ran, origin, badge>>

\* The click on the delete button of an element; the user confirms or not.
ClickDelete ==
  /\ UserEvent
  /\ \E i \in 1..Len(display.list), confirm \in BOOLEAN :
       LET todo == display.list[i]
       IN /\ timers' = IF confirm
                       THEN Append(timers,
                                   Deferred("delete", todo.id,
                                            BornOf(display.born, todo.id)))
                       ELSE timers
          /\ uiOp' = UiOp(IF confirm THEN "delete" ELSE "keep", todo.id, <<>>,
                          BornOf(display.born, todo.id), 0)
  /\ UNCHANGED <<storage, getItemThrows, clock, lastOp, issued, view,
                 display, ran, origin, badge>>

\* The click on the restore button of an archived element.
ClickRestore ==
  /\ UserEvent
  /\ \E j \in 1..Len(display.archive) :
       LET todo == display.archive[j]
       IN /\ unarchiveTodo(todo.id, TRUE)
          /\ renderTodos(origin)
          /\ uiOp' = UiOp("restore", todo.id, <<>>,
                          BornOf(display.born, todo.id), 0)
  /\ UNCHANGED <<timers, ran, origin, badge>>

\* The click on the delete button of an archived element, confirmed or not.
ClickDeleteArchived ==
  /\ UserEvent
  /\ \E j \in 1..Len(display.archive), confirm \in BOOLEAN :
       LET todo == display.archive[j]
       IN /\ uiOp' = UiOp(IF confirm THEN "deleteArchived" ELSE "keep",
                          todo.id, <<>>, BornOf(display.born, todo.id), 0)
          /\ IF confirm
             THEN /\ deleteTodo(todo.id, TRUE)
                  /\ renderTodos(origin)
             ELSE UNCHANGED <<storage, getItemThrows, clock, lastOp, issued,
                              view, display>>
  /\ UNCHANGED <<timers, ran, origin, badge>>

\* The first callback handed to setTimeout runs: the deferred render of a
\* status change, or the deferred archive or delete followed by a render.
\* target records the add that made the task the callback changed.
Timeout ==
  /\ timers # <<>>
  /\ LET t == Head(timers)
         held == IF t.id \in Ids(getTodos) THEN BornOf(origin, t.id) ELSE 0
     IN /\ timers' = Tail(timers)
        /\ ran' = ran + 1
        /\ IF t.kind = "render"
           THEN /\ UNCHANGED <<storage, getItemThrows, clock, lastOp, issued,
                               view>>
                /\ renderTodos(origin)
                /\ uiOp' = UiOp("rendered", t.id, <<>>, t.born, 0)
           ELSE IF t.kind = "archive"
           THEN /\ archiveTodo(t.id, TRUE)
                /\ renderTodos(origin)
                /\ uiOp' = UiOp("archived", t.id, <<>>, t.born, held)
           ELSE /\ deleteTodo(t.id, TRUE)
                /\ renderTodos(origin)
                /\ uiOp' = UiOp("deleted", t.id, <<>>, t.born, held)
  /\ UNCHANGED <<calls, origin, badge>>

NextPage ==
  \/ handleSubmit
  \/ CommitText
  \/ CancelText
  \/ ChangeStatus
  \/ ChangeDueDate
  \/ ClickArchive
  \/ ClickDelete
  \/ ClickRestore
  \/ ClickDeleteArchived
  \/ Timeout

SpecPage == Init /\ [][NextPage]_vars

(***************************************************************************)
(* SpecPageLive: the page under the scheduling of the browser.  The event  *)
(* loop runs a callback handed to setTimeout once its delay has passed: a  *)
(* callback that is due is not put off for ever.  The user makes up to     *)
(* MaxRaced events, at any pace.                                           *)
(***************************************************************************)
MaxRaced == 3

Racing == calls < MaxRaced

NextRace ==
  \/ Racing /\ handleSubmit
  \/ Racing /\ CommitText
  \/ Racing /\ CancelText
  \/ Racing /\ ChangeStatus
  \/ Racing /\ ChangeDueDate
  \/ Racing /\ ClickArchive
  \/ Racing /\ ClickDelete
  \/ Racing /\ ClickRestore
  \/ Racing /\ ClickDeleteArchived
  \/ Timeout

\* The step that takes the first callback off timers and runs it.  Timeout
\* is the only action that shortens timers and it can run whenever a
\* callback is pending, so these are the steps of Timeout and fairness
\* to them is fairness to Timeout.
RunsCallback ==
  /\ timers # <<>>
  /\ timers' = Tail(timers)

SpecPageLive == Init /\ [][NextRace]_vars /\ WF_timers(RunsCallback)

(***************************************************************************)
(* Vocabulary of the properties.                                           *)
(***************************************************************************)
\* listAll() on a stored value that can be read.
Persisted(st) == getTodosValue(st, FALSE).val

\* A step that is a call of the Store operation op.
CallOf(op) == calls' = calls + 1 /\ lastOp'.op = op

Spaces(s) == \A i \in 1..Len(s) : s[i] = SP

\* out is input without its leading and trailing white space.
IsTrimOf(out, input) ==
  /\ out = <<>> \/ (out[1] # SP /\ out[Len(out)] # SP)
  /\ \E i \in 0..Len(input) :
       /\ i + Len(out) <= Len(input)
       /\ Spaces(SubSeq(input, 1, i))
       /\ out = SubSeq(input, i + 1, i + Len(out))
       /\ Spaces(SubSeq(input, i + Len(out) + 1, Len(input)))

Greatest(S) == CHOOSE m \in S : \A x \in S : m >= x

\* after is before with the task at one position taken out.
IsWithout(after, before, id) ==
  \E k \in 1..Len(before) :
    /\ before[k].id = id
    /\ after = SubSeq(before, 1, k - 1) \o SubSeq(before, k + 1, Len(before))

Updates == {"setStatus", "setText", "setDueDate", "archive", "unarchive"}

(***************************************************************************)
(* C1.  In every state reached from unset storage by add, delete,          *)
(* setStatus, setText, setDueDate, archive and unarchive, no two tasks of  *)
(* the persisted collection have the same id.                              *)
(***************************************************************************)
C1_UniqueIds ==
  \A i, j \in 1..Len(getTodos) :
    i # j => getTodos[i].id # getTodos[j].id

\* An add has put a second task beside an earlier one.
C1_Witness ==
  /\ lastOp.op = "add"
  /\ Len(getTodos) = 2
  /\ calls >= 2

(***************************************************************************)
(* C2.  add(text, status, dueDate) returns a task whose id is 1 on an      *)
(* empty collection and the greatest persisted id plus one otherwise,      *)
(* whose text is the trimmed input, whose status and dueDate are the       *)
(* arguments (todo and null when left out) and whose archived flag is      *)
(* false; afterwards listAll() is the previous collection with that task   *)
(* appended.                                                               *)
(***************************************************************************)
C2_AddContract ==
  [][CallOf("add") =>
       LET before == Persisted(storage)
           call == lastOp'
       IN /\ Len(call.ret) = 1
          /\ call.ret[1].id =
               (IF before = <<>> THEN 1 ELSE Greatest(Ids(before)) + 1)
          /\ IsTrimOf(call.ret[1].text, call.text)
          /\ call.ret[1].status =
               (IF call.status = Undefined THEN "todo" ELSE call.status)
          /\ call.ret[1].dueDate =
               (IF call.dueDate = Undefined THEN Null ELSE call.dueDate)
          /\ call.ret[1].archived = FALSE
          /\ Persisted(storage') = Append(before, call.ret[1])]_vars

\* An add with defaults and a padded text on a collection whose greatest id
\* is not its length.
C2_Witness ==
  /\ lastOp.op = "add"
  /\ lastOp.status = Undefined
  /\ lastOp.dueDate = Undefined
  /\ lastOp.text # lastOp.ret[1].text
  /\ Len(getTodos) = 2
  /\ lastOp.ret[1].id = 3
  /\ getTodos[2] = lastOp.ret[1]

(***************************************************************************)
(* C3.  As claimed: the id returned by each add is strictly greater than   *)
(* the id returned by every earlier add, also when the task that held it   *)
(* was deleted.                                                            *)
(***************************************************************************)
C3_NeverReissued ==
  [][CallOf("add") => \A i \in issued : lastOp'.ret[1].id > i]_vars

(***************************************************************************)
(* C3, amended.  The id returned by each add is strictly greater than the  *)
(* id of every task in the persisted collection at the time of the call,   *)
(* that is than the id returned by every earlier add whose task is still   *)
(* persisted.                                                              *)
(***************************************************************************)
C3_AbovePersistedIds ==
  [][CallOf("add") =>
       \A i \in issued \cap Ids(Persisted(storage)) :
         lastOp'.ret[1].id > i]_vars

\* The second add of a behaviour returned 2 while task 1 was persisted.
C3_Witness ==
  /\ lastOp.op = "add"
  /\ lastOp.ret[1].id = 2
  /\ issued = {1, 2}
  /\ Ids(getTodos) = {1, 2}

(***************************************************************************)
(* C4.  delete(id) on a persisted id returns true and leaves the           *)
(* collection without exactly that task, the others in their order;        *)
(* delete(id) on another id returns false and leaves storage as it was.    *)
(***************************************************************************)
C4_DeleteContract ==
  [][CallOf("delete") =>
       LET before == Persisted(storage)
           call == lastOp'
       IN IF call.id \in Ids(before)
          THEN /\ call.deleted
               /\ IsWithout(Persisted(storage'), before, call.id)
          ELSE /\ ~call.deleted
               /\ storage' = storage]_vars

\* A delete removed one of two tasks.
C4_Witness ==
  /\ lastOp.op = "delete"
  /\ lastOp.deleted
  /\ Len(getTodos) = 1
  /\ lastOp.id \notin Ids(getTodos)

(***************************************************************************)
(* C5.  setStatus, setText, setDueDate, archive and unarchive on an id     *)
(* that is not persisted, and setText on a persisted id with a text that   *)
(* is blank after trimming, return null and leave storage as it was.       *)
(***************************************************************************)
C5_RejectedUpdates ==
  [][(/\ calls' = calls + 1
      /\ lastOp'.op \in Updates
      /\ \/ lastOp'.id \notin Ids(Persisted(storage))
         \/ lastOp'.op = "setText" /\ Spaces(lastOp'.text))
       => /\ lastOp'.ret = NoTodo
          /\ storage' = storage]_vars

\* A setText with a blank text was made on a persisted task.
C5_Witness ==
  /\ lastOp.op = "setText"
  /\ lastOp.id \in Ids(getTodos)
  /\ Spaces(lastOp.text)
  /\ lastOp.ret = NoTodo
(***************************************************************************)
(* C6.  As claimed: on a persisted collection whose statuses are todo,     *)
(* doing or done, listSorted() is a permutation of the non-archived tasks  *)
(* in which todo precedes doing precedes done and, within a status, a task *)
(* with a missing or unparseable createdAt precedes every task with a      *)
(* valid one and valid ones are in ascending createdAt order.              *)
(***************************************************************************)
Rank(status) ==
  IF status = "todo" THEN 0 ELSE IF status = "doing" THEN 1 ELSE 2

ValidInstant(createdAt) == createdAt.k = "iso"

\* a is not later than b, a missing or unparseable createdAt being the
\* earliest instant.
NotLater(a, b) ==
  \/ ~ValidInstant(a)
  \/ ValidInstant(b) /\ a.ms <= b.ms

C6_SortedOrder ==
  (/\ view.q = "sorted"
   /\ ~view.threw
   /\ \A t \in Range(getTodos) : t.status \in Statuses)
    => /\ Len(view.list)
            = Cardinality({ t \in Range(getTodos) : ~t.archived })
       /\ Range(view.list) = { t \in Range(getTodos) : ~t.archived }
       /\ \A i, j \in 1..Len(view.list) :
            i < j =>
              /\ Rank(view.list[i].status) <= Rank(view.list[j].status)
              /\ view.list[i].status = view.list[j].status
                   => NotLater(view.list[i].createdAt,
                               view.list[j].createdAt)

(***************************************************************************)
(* C7.  In every state each persisted task is in exactly one of            *)
(* listSorted() and listArchived(): an archived task only in               *)
(* listArchived(), any other only in listSorted(); after archive(id) of a  *)
(* persisted task it is in listArchived(), after unarchive(id) in          *)
(* listSorted().                                                           *)
(***************************************************************************)
IdsOf(list) == { list[i].id : i \in 1..Len(list) }

Occurrences(list, t) == Cardinality({ i \in 1..Len(list) : list[i] = t })

C7_ArchivePartition ==
  LET todos == getTodos
      archived == getArchivedTodos(todos)
  IN \A sorted \in getSortedTodos(todos) :
       /\ \A i \in 1..Len(todos) :
            IF todos[i].archived
            THEN /\ Occurrences(sorted, todos[i]) = 0
                 /\ Occurrences(archived, todos[i]) = 1
            ELSE /\ Occurrences(sorted, todos[i]) = 1
                 /\ Occurrences(archived, todos[i]) = 0
       /\ (lastOp.op = "archive" /\ lastOp.id \in Ids(todos))
            => lastOp.id \in IdsOf(archived) \ IdsOf(sorted)
       /\ (lastOp.op = "unarchive" /\ lastOp.id \in Ids(todos))
            => lastOp.id \in IdsOf(sorted) \ IdsOf(archived)

\* A task was archived beside one that is not.
C7_Witness ==
  /\ lastOp.op = "archive"
  /\ lastOp.id \in Ids(getTodos)
  /\ Len(getTodos) = 2
  /\ \E i \in 1..2 : ~getTodos[i].archived

(***************************************************************************)
(* C8.  statusSummary() counts the non-archived tasks: total is their      *)
(* number, todo, doing and done the number of them with that status, and   *)
(* when every status is one of the three total = todo + doing + done.      *)
(***************************************************************************)
Active(status) ==
  Cardinality({ i \in 1..Len(getTodos) :
                  /\ ~getTodos[i].archived
                  /\ getTodos[i].status \in status })

C8_SummaryCounts ==
  (view.q = "summary" /\ ~view.threw)
    => /\ view.total = Active(Statuses \cup {"someday"})
       /\ view.todo = Active({"todo"})
       /\ view.doing = Active({"doing"})
       /\ view.done = Active({"done"})
       /\ (\A t \in Range(getTodos) : t.status \in Statuses)
            => view.total = view.todo + view.doing + view.done

\* A summary of a collection with an archived task and a task that counts.
C8_Witness ==
  /\ view.q = "summary"
  /\ ~view.threw
  /\ Len(getTodos) = 2
  /\ \E i \in 1..2 : getTodos[i].archived
  /\ view.total = 1
  /\ view.done = 1

(***************************************************************************)
(* C9.  When setItem throws during add, delete, setStatus, setText,        *)
(* setDueDate, archive or unarchive, the call returns what it returns      *)
(* when the write succeeds (the new task, the changed task, true for a     *)
(* delete) and the persisted collection is what it was before the call.    *)
(***************************************************************************)
TrimOf(input) ==
  CHOOSE out \in { SubSeq(input, i, j) :
                     i \in 1..(Len(input) + 1), j \in 0..Len(input) } :
    IsTrimOf(out, input)

\* The task an accepted update returns.
Changed(task, call) ==
  IF call.op = "setStatus" THEN [task EXCEPT !.status = call.status]
  ELSE IF call.op = "setText" THEN [task EXCEPT !.text = TrimOf(call.text)]
  ELSE IF call.op = "setDueDate" THEN [task EXCEPT !.dueDate = call.dueDate]
  ELSE IF call.op = "archive" THEN [task EXCEPT !.archived = TRUE]
  ELSE [task EXCEPT !.archived = FALSE]

Rejected(before, call) ==
  \/ call.id \notin Ids(before)
  \/ call.op = "setText" /\ Spaces(call.text)

\* What the call returns when its write succeeds.
ReturnsAsOnSuccess(before, call, now) ==
  IF call.op = "add"
  THEN /\ ~call.deleted
       /\ call.ret =
            << [id |-> IF before = <<>> THEN 1
                       ELSE Greatest(Ids(before)) + 1,
                text |-> TrimOf(call.text),
                status |-> IF call.status = Undefined THEN "todo"
                           ELSE call.status,
                createdAt |-> Iso(now),
                archived |-> FALSE,
                dueDate |-> IF call.dueDate = Undefined THEN Null
                            ELSE call.dueDate] >>
  ELSE IF call.op = "delete"
  THEN /\ call.deleted = (call.id \in Ids(before))
       /\ call.ret = NoTodo
  ELSE /\ ~call.deleted
       /\ IF Rejected(before, call) THEN call.ret = NoTodo
          ELSE \E k \in 1..Len(before) :
                 /\ before[k].id = call.id
                 /\ call.ret = << Changed(before[k], call) >>

C10_ListAllOrEmpty ==
  [][view'.q = "all" =>
       /\ ~view'.threw
       /\ view'.isArray
       /\ view'.list = (IF ~getItemThrows /\ storage.kind = "array"
                        THEN storage.val ELSE <<>>)
       /\ storage' = storage
       /\ view.q = "all" => view' = view]_vars

(***************************************************************************)
(* C11.  As claimed: with today and the due date counted as whole calendar *)
(* days of the user's zone, a due date is overdue exactly when it is       *)
(* before today, urgent exactly when it is from today to today + 3, and    *)
(* normal exactly when it is today + 4 or later; an absent due date (null  *)
(* or empty) has no urgency.                                               *)
(***************************************************************************)
\* The calendar day of the user at the instant now.
Today(now, tz) == (now + tz) \div HoursPerDay

C11_UrgencyByCalendarDay ==
  badge.shown =>
    IF badge.dueDate.k # "date" THEN badge.urgency = Null
    ELSE LET D == Today(badge.now, badge.tz)
             due == badge.dueDate.day
         IN /\ badge.urgency \in {"overdue", "urgent", "normal"}
            /\ badge.urgency = "overdue" <=> due < D
            /\ badge.urgency = "urgent" <=> (D <= due /\ due <= D + 3)
            /\ badge.urgency = "normal" <=> due >= D + 4

(***************************************************************************)
(* C12.  From unset storage, whatever the user does on the page (submit    *)
(* the add form, commit an edited text by Enter or blur or cancel it by    *)
(* Escape, change a status or a due date, archive, restore, delete), the   *)
(* text of every persisted task is non-empty after trimming; a submission  *)
(* whose text is blank calls no add and leaves storage as it was, and a    *)
(* blank edited text leaves storage as it was.                             *)
(***************************************************************************)
C12_NoBlankText ==
  /\ [](\A t \in Range(Persisted(storage)) : ~Spaces(t.text))
  /\ [][(calls' = calls + 1 /\ uiOp'.kind = "submit" /\ Spaces(uiOp'.text))
          => storage' = storage /\ lastOp' = lastOp]_vars
  /\ [][(/\ calls' = calls + 1
         /\ uiOp'.kind \in {"enter", "blur", "escape"}
         /\ Spaces(uiOp'.text))
          => storage' = storage]_vars

\* A blank text was committed in the editor of a persisted task, after a
\* text had been edited.
C12_Witness ==
  /\ uiOp.kind = "blur"
  /\ Spaces(uiOp.text)
  /\ \E t \in Range(getTodos) : t.id = uiOp.id /\ t.text = <<"b">>

(***************************************************************************)
(* C13.  A setStatus, setText, setDueDate, archive or unarchive that is    *)
(* not rejected (the id is persisted, the text not blank) returns the task *)
(* and changes only the one field it is about, of the task with that id:   *)
(* the other fields of the task, every other task, the number of tasks and *)
(* their order are as before.  No call of the Store changes the createdAt  *)
(* of a task that is persisted before and after it.                        *)
(***************************************************************************)
Fields == {"id", "text", "status", "createdAt", "archived", "dueDate"}

FieldOf(op) ==
  IF op = "setStatus" THEN "status"
  ELSE IF op = "setText" THEN "text"
  ELSE IF op = "setDueDate" THEN "dueDate"
  ELSE "archived"

\* The value the call gives to its field.
ValueOf(call) ==
  IF call.op = "setStatus" THEN call.status
  ELSE IF call.op = "setText" THEN TrimOf(call.text)
  ELSE IF call.op = "setDueDate" THEN call.dueDate
  ELSE call.op = "archive"

CreatedAtOf(todos) == { <<todos[k].id, todos[k].createdAt>> : k \in 1..Len(todos) }

C13_UpdateFrame ==
  /\ [][(/\ calls' = calls + 1
         /\ lastOp'.op \in Updates
         /\ ~Rejected(Persisted(storage), lastOp'))
          => LET before == Persisted(storage)
                 after == Persisted(storage')
                 call == lastOp'
             IN /\ Len(call.ret) = 1
                /\ Len(after) = Len(before)
                /\ \A k \in 1..Len(before) :
                     IF before[k].id = call.id
                     THEN /\ after[k][FieldOf(call.op)] = ValueOf(call)
                          /\ \A f \in Fields \ {FieldOf(call.op)} :
                               after[k][f] = before[k][f]
                          /\ call.ret[1] = after[k]
                     ELSE after[k] = before[k]]_vars
  /\ [][calls' = calls + 1 =>
          \A p \in CreatedAtOf(Persisted(storage)) :
            p[1] \in Ids(Persisted(storage')) =>
              p \in CreatedAtOf(Persisted(storage'))]_vars

\* A status was changed, a tick after the page loaded, on the second of
\* two tasks.
C13_Witness ==
  /\ lastOp.op = "setStatus"
  /\ lastOp.ret # NoTodo
  /\ clock = 1
  /\ Len(getTodos) = 2
  /\ getTodos[2].id = lastOp.id
  /\ getTodos[2].status = lastOp.status
  /\ getTodos[2].createdAt = Iso(0)

(***************************************************************************)
(* C14.  As claimed: under every interleaving of the events of the user    *)
(* and the timer callbacks, a deferred archive or delete that changes a    *)
(* task changes the task shown in the element that was clicked, the one    *)
(* made by the same add, and never a task added after the click.           *)
(***************************************************************************)
C14_DeferredHitsClickedTask ==
  (uiOp.kind \in {"archived", "deleted"} /\ uiOp.target # 0)
    => uiOp.target = uiOp.born

(***************************************************************************)
(* C15.  Every callback handed to setTimeout eventually runs, and whenever *)
(* none is pending the page displays a fresh read of storage: the primary  *)
(* list is listSorted() in its order, the archive list is listArchived()   *)
(* and the summary is statusSummary(), however the events of the user and  *)
(* the callbacks interleave.                                               *)
(***************************************************************************)
\* The number of callbacks handed to setTimeout so far.
Scheduled == ran + Len(timers)

DisplaysFreshRead ==
  LET todos == Persisted(storage)
  IN /\ display.list \in getSortedTodos(todos)
     /\ display.archive = getArchivedTodos(todos)
     /\ \E sorted \in getSortedTodos(todos) :
          display.summary = getStatusSummary(sorted)

C15_DeferredRunAndDisplayFresh ==
  /\ \A n \in 1..MaxRaced : (Scheduled >= n) ~> (ran >= n)
  /\ [](timers = <<>> => DisplaysFreshRead)

\* Two status changes raced: both deferred renders have run, none is
\* pending and the page shows the status of the later change.
C15_Witness ==
  /\ timers = <<>>
  /\ ran = 2
  /\ uiOp.kind = "rendered"
  /\ lastOp.op = "setStatus"
  /\ Len(display.list) = 1
  /\ display.list[1].status = lastOp.status
  /\ display.summary.done = 1
====
